---- MODULE Spec2Model ----
(***************************************************************************)
(* State-machine model of torchio_monai_pytorch_lightning.py: the          *)
(* MedicalDecathlonDataModule (archive acquisition, subject indexing,      *)
(* train/validation split, transform pipelines, batch loaders) and the     *)
(* Model wrapper (training and validation steps).                          *)
(*                                                                         *)
(* Library calls are modelled by what they do to the values the script     *)
(* keeps: pathlib globbing and sorting on file names spelled character by  *)
(* character, zip as positional pairing up to the shorter list,            *)
(* torch.utils.data.random_split as a slice of a permutation drawn from    *)
(* the global generator, the TorchIO transforms by their effect on the     *)
(* spatial shape, the network and the criterion as uninterpreted terms.    *)
(***************************************************************************)
EXTENDS Integers, Sequences, FiniteSets, TLC

VARIABLES
    archive,     \* content of the remote tar archive (never changes)
    disk,        \* the dataset directory: NoDir or a directory content
    downloads,   \* number of gdown.download calls made so far
    data,        \* the MedicalDecathlonDataModule object of the run
    generator,   \* the global torch generator of the run: seed and draws made
    raised,      \* the uncaught exception that ended the run, or "none"
    batch,       \* the batch last produced by one of the data loaders
    data2,       \* the data module of a second run of the script
    generator2,  \* the global torch generator of the second run
    model,       \* the Model object: network state and what it logged
    returned     \* what the last training_step / validation_step returned

vars == <<archive, disk, downloads, data, generator, raised, batch,
          data2, generator2, model, returned>>

----------------------------------------------------------------------------
(* Bounds of the model *)

\* the generator's draws are counted up to this number
MaxDraws == 2

\* the batch_size the data module is built with (16 in the script)
BatchSize == 2

\* optimizer steps are counted up to this number
MaxSteps == 2

----------------------------------------------------------------------------
(* Optional values: None, or a one-element tuple holding the value *)

None == <<>>

Some(x) == <<x>>

Min(a, b) == IF a <= b THEN a ELSE b

----------------------------------------------------------------------------
(* File names, as pathlib sees them *)

\* code points of the characters used in the file names
ord == ("." :> 46 @@ "_" :> 95 @@ "a" :> 97 @@ "b" :> 98 @@ "c" :> 99 @@
        "d" :> 100 @@ "g" :> 103 @@ "i" :> 105 @@ "n" :> 110 @@ "t" :> 116 @@
        "x" :> 120 @@ "z" :> 122)

\* a < b for two names: str comparison, code point by code point
NameLess(a, b) ==
    \E i \in 1..(Min(Len(a), Len(b)) + 1) :
        /\ \A j \in 1..(i - 1) : a[j] = b[j]
        /\ \/ i > Len(a) /\ i <= Len(b)
           \/ i <= Len(a) /\ i <= Len(b) /\ ord[a[i]] < ord[b[i]]

\* p.name.startswith('.')
startswith_dot(name) == Len(name) >= 1 /\ name[1] = "."

\* the glob pattern '*.nii*': the name holds ".nii" somewhere
glob_nii(name) ==
    \E i \in 1..(Len(name) - 3) :
        SubSeq(name, i, i + 3) = <<".", "n", "i", "i">>

\* sorted(...) of a set of files, by name
RECURSIVE sorted(_)
sorted(S) ==
    IF S = {} THEN <<>>
    ELSE LET first == CHOOSE f \in S :
                          \A g \in S \ {f} : NameLess(f.name, g.name)
         IN  <<first>> \o sorted(S \ {first})

\* get_niis(d): the sorted non-hidden files of d that match '*.nii*'; with
\* pathlib, '*' also matches a leading dot, so hidden files reach the filter
get_niis_hidden(d) == sorted({p \in d : glob_nii(p.name)})

get_niis(d) ==
    sorted({p \in d : glob_nii(p.name) /\ ~startswith_dot(p.name)})

----------------------------------------------------------------------------
(* The files a dataset directory may hold: a name and the spatial shape of *)
(* the volume stored in it                                                 *)

File(name, shape) == [name |-> name, shape |-> shape]

ImagesTrFiles ==
    { File(<<".", "_", "a", ".", "n", "i", "i">>, <<1, 1, 1>>),
      File(<<"a", ".", "n", "i", "i">>, <<9, 8, 5>>),
      File(<<"b", ".", "n", "i", "i", ".", "g", "z">>, <<7, 16, 5>>),
      File(<<"c", ".", "n", "i", "i">>, <<9, 8, 5>>) }

LabelsTrFiles ==
    { File(<<"a", ".", "n", "i", "i">>, <<9, 8, 5>>),
      File(<<"b", ".", "n", "i", "i", ".", "g", "z">>, <<7, 16, 5>>),
      File(<<"c", ".", "n", "i", "i">>, <<9, 8, 5>>) }

ImagesTsFiles ==
    { File(<<"t", ".", "n", "i", "i">>, <<8, 8, 17>>),
      File(<<"t", ".", "t", "x", "t">>, <<1, 1, 1>>) }

\* a fourth image with its label, for a directory of four matched pairs
FourthFile == File(<<"d", ".", "n", "i", "i">>, <<9, 8, 5>>)

Contents ==
    [ imagesTr : SUBSET ImagesTrFiles,
      labelsTr : SUBSET LabelsTrFiles,
      imagesTs : SUBSET ImagesTsFiles ]
    \cup
    { [ imagesTr |-> ImagesTrFiles \cup {FourthFile},
        labelsTr |-> LabelsTrFiles \cup {FourthFile},
        imagesTs |-> ImagesTsFiles ] }

\* the dataset directory does not exist
NoDir == [ absent |-> TRUE ]

\* self.dataset_dir.is_dir()
is_dir(dsk) == dsk # NoDir

\* `!tar xf {output}`: the archive's content becomes the dataset directory
tar_xf(arch) == arch

\* download_data(): fetch and extract only when the directory is missing,
\* then index the three sub-directories
download_data_always(dsk, arch) ==
    LET d == tar_xf(arch)
    IN  [ fetched              |-> TRUE,
          disk                 |-> d,
          image_training_paths |-> get_niis(d.imagesTr),
          label_training_paths |-> get_niis(d.labelsTr),
          image_test_paths     |-> get_niis(d.imagesTs) ]

download_data(dsk, arch) ==
    LET fetch == ~is_dir(dsk)
        d     == IF fetch THEN tar_xf(arch) ELSE dsk
    IN  [ fetched              |-> fetch,
          disk                 |-> d,
          image_training_paths |-> get_niis(d.imagesTr),
          label_training_paths |-> get_niis(d.labelsTr),
          image_test_paths     |-> get_niis(d.imagesTs) ]

----------------------------------------------------------------------------
(* MedicalDecathlonDataModule *)

\* train_val_ratio as a fraction num/den.  The values are binary fractions,
\* which a float holds exactly, and 0.8, whose products with an integer are
\* never half-way between two integers.
Ratios ==
    { [num |-> 1, den |-> 4], [num |-> 1, den |-> 2], [num |-> 5, den |-> 8],
      [num |-> 4, den |-> 5] }

\* __init__
MedicalDecathlonDataModule(batch_size, train_val_ratio) ==
    [ batch_size      |-> batch_size,
      train_val_ratio |-> train_val_ratio,
      subjects        |-> None,
      test_subjects   |-> None,
      preprocess      |-> None,
      transform       |-> None,
      train_set       |-> None,
      val_set         |-> None,
      test_set        |-> None ]

\* tio.Subject(image=tio.ScalarImage(image_path), label=tio.LabelMap(label_path))
Subject(image_path, label_path) == [image |-> image_path, label |-> label_path]

\* tio.Subject(image=tio.ScalarImage(image_path))
TestSubject(image_path) == [image |-> image_path]

\* zip(a, b): pairs up to the end of the shorter list
zip(a, b) == [i \in 1..Min(Len(a), Len(b)) |-> <<a[i], b[i]>>]

\* prepare_data(), given what download_data() returned
prepare_data_resets_sets(self, got) ==
    LET pairs == zip(got.image_training_paths, got.label_training_paths)
    IN  [self EXCEPT
           !.subjects = Some([i \in 1..Len(pairs) |->
                                 Subject(pairs[i][1], pairs[i][2])]),
           !.test_subjects = Some([i \in 1..Len(got.image_test_paths) |->
                                      TestSubject(got.image_test_paths[i])]),
           !.train_set = None,
           !.val_set = None,
           !.test_set = None]

prepare_data(self, got) ==
    LET pairs == zip(got.image_training_paths, got.label_training_paths)
    IN  [self EXCEPT
           !.subjects = Some([i \in 1..Len(pairs) |->
                                 Subject(pairs[i][1], pairs[i][2])]),
           !.test_subjects = Some([i \in 1..Len(got.image_test_paths) |->
                                      TestSubject(got.image_test_paths[i])])]

----------------------------------------------------------------------------
(* TorchIO data structures and transforms *)

\* torch.utils.data.Subset: a dataset and the indices (from 0) taken from it.
\* A plain list is held the same way, with every index in order.
Subset(dataset, indices) == [dataset |-> dataset, indices |-> indices]

whole(list) == Subset(list, [i \in 1..Len(list) |-> i - 1])

\* tio.SubjectsDataset(subjects, transform=...)
SubjectsDataset(subjects, transform) ==
    [subjects |-> subjects, transform |-> transform]

\* len(dataset)
len(dataset) == Len(dataset.subjects.indices)

\* SubjectsDataset._parse_subjects_list raises ValueError on an empty list
is_empty(subjects) == Len(subjects.indices) = 0

\* a transform: its class and its argument; Compose holds a list of them
Transform(name, arg) == [name |-> name, arg |-> arg]

Compose(transforms) == Transform("Compose", transforms)

Max(S) == CHOOSE x \in S : \A y \in S : y <= x

Axes == 1..3

\* the shape a transform gives an image of the given spatial shape
RECURSIVE apply(_, _)
apply(t, shape) ==
    CASE t.name = "Compose" ->
           IF t.arg = <<>> THEN shape
           ELSE apply(Compose(Tail(t.arg)), apply(Head(t.arg), shape))
      [] t.name = "CropOrPad" -> t.arg
      [] t.name = "EnsureShapeMultiple" ->
           [a \in Axes |->
               Max({((shape[a] + t.arg - 1) \div t.arg) * t.arg, 1})]
      [] OTHER -> shape

\* the transforms in the order in which a (nested) Compose runs them
RECURSIVE order(_)
order(t) ==
    IF t.name = "Compose"
    THEN IF t.arg = <<>> THEN <<>>
         ELSE order(Head(t.arg)) \o order(Compose(Tail(t.arg)))
    ELSE <<t>>

\* Subject.spatial_shape raises RuntimeError when the images of the subject
\* differ in shape
consistent_spatial_shape(subject) ==
    \A f, g \in DOMAIN subject : subject[f].shape = subject[g].shape

\* dataset[k], k from 0: the subject with the dataset's transform applied to
\* each of its images
getitem(dataset, k) ==
    LET s == dataset.subjects.dataset[dataset.subjects.indices[k + 1] + 1]
    IN  [f \in DOMAIN s |->
            [s[f] EXCEPT !.shape = apply(dataset.transform, s[f].shape)]]

\* get_max_shape(subjects): the per-axis maximum of the spatial shapes
get_max_shape_training_only(subjects) ==
    LET labelled == {i \in 1..Len(subjects) : "label" \in DOMAIN subjects[i]}
        used     == IF labelled = {} THEN 1..Len(subjects) ELSE labelled
    IN  [a \in Axes |-> Max({subjects[i].image.shape[a] : i \in used})]

get_max_shape(subjects) ==
    [a \in Axes |->
        Max({subjects[i].image.shape[a] : i \in 1..Len(subjects)})]

\* get_preprocessing_transform()
get_preprocessing_transform(self) ==
    Compose(<< Transform("RescaleIntensity", <<-1, 1>>),
               Transform("CropOrPad",
                   get_max_shape(self.subjects[1] \o self.test_subjects[1])),
               Transform("EnsureShapeMultiple", 8),
               Transform("OneHot", None) >>)

\* get_augmentation_transform()
get_augmentation_transform ==
    Compose(<< Transform("RandomAffine", None),
               Transform("RandomGamma", "p=0.5"),
               Transform("RandomNoise", "p=0.5"),
               Transform("RandomMotion", "p=0.1"),
               Transform("RandomBiasField", "p=0.25") >>)

\* self.transform = tio.Compose([self.preprocess, augment])
train_transform_augment_first(preprocess, augment) ==
    Compose(<<augment, preprocess>>)

train_transform(preprocess, augment) == Compose(<<preprocess, augment>>)

\* int(round(p / q)) for integers p >= 0, q > 0: Python rounds a float to
\* the nearest integer and a tie to the even one
py_floor(p, q) == p \div q

py_round(p, q) ==
    LET floor == p \div q
        rest  == p % q
    IN  IF 2 * rest < q THEN floor
        ELSE IF 2 * rest > q THEN floor + 1
        ELSE IF floor % 2 = 0 THEN floor
        ELSE floor + 1

\* torch.randperm(n): the orders in which 0..n-1 may come out
randperm(n) ==
    {p \in [1..n -> 0..(n - 1)] : \A i, j \in 1..n : p[i] = p[j] => i = j}

\* random_split(dataset, lengths), given the permutation drawn: consecutive
\* slices of the permuted indices, one per length
random_split_overlap(dataset, lengths, perm) ==
    << Subset(dataset, SubSeq(perm, 1, lengths[1])),
       Subset(dataset, SubSeq(perm, lengths[1],
                              lengths[1] + lengths[2] - 1)) >>

random_split(dataset, lengths, perm) ==
    << Subset(dataset, SubSeq(perm, 1, lengths[1])),
       Subset(dataset, SubSeq(perm, lengths[1] + 1,
                              lengths[1] + lengths[2])) >>

\* the first lines of setup(): the two sizes and the call of random_split
\* (lines 144-148), given the permutation it draws
split_subjects(self, perm) ==
    LET num_subjects       == Len(self.subjects[1])
        num_train_subjects == py_round(num_subjects * self.train_val_ratio.num,
                                       self.train_val_ratio.den)
        num_val_subjects   == num_subjects - num_train_subjects
        splits             == <<num_train_subjects, num_val_subjects>>
    IN  random_split(self.subjects[1], splits, perm)

\* setup(), given the permutation random_split draws: the object as the call
\* leaves it and the exception that ended the call, "none" when it returned.
\* tio.SubjectsDataset raises ValueError when it is given no subject, so the
\* call returns only when N*r rounds to neither 0 nor N and there is a test
\* subject.
setup(self, perm) ==
    LET subjects           == self.subjects[1]
        split              == split_subjects(self, perm)
        train_subjects     == split[1]
        val_subjects       == split[2]
        pool               == subjects \o self.test_subjects[1]
        preprocess         == get_preprocessing_transform(self)
        augment            == get_augmentation_transform
        transform          == train_transform(preprocess, augment)
        s152 == [self EXCEPT !.preprocess = Some(preprocess),
                             !.transform = Some(transform)]
        s154 == [s152 EXCEPT !.train_set =
                     Some(SubjectsDataset(train_subjects, transform))]
        s155 == [s154 EXCEPT !.val_set =
                     Some(SubjectsDataset(val_subjects, preprocess))]
        s156 == [s155 EXCEPT !.test_set =
                     Some(SubjectsDataset(whole(self.test_subjects[1]),
                                          preprocess))]
    IN  IF self.subjects = None
          THEN [self |-> self, raised |-> "TypeError"]       \* len(None)
        ELSE IF pool = <<>>
          THEN [self |-> self, raised |-> "ValueError"]      \* get_max_shape
        ELSE IF \E i \in 1..Len(pool) : ~consistent_spatial_shape(pool[i])
          THEN [self |-> self, raised |-> "RuntimeError"]    \* get_max_shape
        ELSE IF is_empty(train_subjects)
          THEN [self |-> s152, raised |-> "ValueError"]      \* line 154
        ELSE IF is_empty(val_subjects)
          THEN [self |-> s154, raised |-> "ValueError"]      \* line 155
        ELSE IF self.test_subjects[1] = <<>>
          THEN [self |-> s155, raised |-> "ValueError"]      \* line 156
        ELSE [self |-> s156, raised |-> "none"]

\* DataLoader(dataset, batch_size): batch k (from 1) holds the items
\* (k-1)*batch_size .. k*batch_size - 1 of the dataset, in order
num_batches(dataset, batch_size) ==
    (len(dataset) + batch_size - 1) \div batch_size

DataLoader(dataset, batch_size, k) ==
    LET first == (k - 1) * batch_size
        last  == Min(k * batch_size, len(dataset)) - 1
    IN  [i \in 1..(last - first + 1) |-> getitem(dataset, first + i - 1)]

\* default_collate stacks the tensors of a batch: they must agree in shape
collates(items) ==
    \A i, j \in 1..Len(items) : \A f \in DOMAIN items[i] :
        items[i][f].shape = items[j][f].shape

\* monai.utils.set_determinism(): the seed argument defaults to a fixed
\* number; set_determinism(seed=None) would let the generator seed itself
\* from the system's entropy
Entropy == {"urandom_1", "urandom_2"}

set_determinism_None(entropy) == entropy

set_determinism(entropy) == "NP_MAX"

----------------------------------------------------------------------------
(* The run of the script, one call at a time *)

Pinned2 == /\ data2 = None
           /\ generator2 = None

PinnedModel == /\ model = None
               /\ returned = None

Init ==
    /\ archive \in Contents
    /\ disk \in {NoDir, archive}
    /\ downloads = 0
    /\ \E r \in Ratios : data = MedicalDecathlonDataModule(BatchSize, r)
    /\ \E e \in Entropy : generator = [seed |-> set_determinism(e), pos |-> 0]
    /\ raised = "none"
    /\ batch = None
    /\ Pinned2
    /\ PinnedModel

\* data.prepare_data(): download_data() and the two subject lists
PrepareData ==
    /\ raised = "none"
    /\ \E network_ok \in BOOLEAN :
         LET got == download_data(disk, archive)
         IN  /\ downloads' = downloads + (IF got.fetched THEN 1 ELSE 0)
             /\ IF got.fetched /\ ~network_ok
                  THEN /\ raised' = "ConnectionError"
                       /\ UNCHANGED <<disk, data>>
                  ELSE /\ disk' = got.disk
                       /\ data' = prepare_data(data, got)
                       /\ UNCHANGED raised
    /\ UNCHANGED <<archive, generator, batch, data2, generator2, model,
                   returned>>

\* data.setup(), by the script or by the trainer
Setup ==
    /\ raised = "none"
    /\ generator.pos < MaxDraws
    /\ LET n == IF data.subjects = None THEN 0 ELSE Len(data.subjects[1])
       IN  \E perm \in randperm(n) :
             LET out == setup(data, perm)
             IN  /\ data' = out.self
                 /\ raised' = out.raised
                 /\ generator' = IF data.subjects = None THEN generator
                                 ELSE [generator EXCEPT !.pos = @ + 1]
    /\ UNCHANGED <<archive, disk, downloads, batch, data2, generator2, model,
                   returned>>

\* iterating a data loader: the next batch, or the exception of a loader
\* built on a set that was never assigned or on items that do not stack
Load(split, dataset) ==
    /\ raised = "none"
    /\ IF dataset = None
         THEN /\ raised' = "TypeError"
              /\ UNCHANGED batch
         ELSE \E k \in 1..num_batches(dataset[1], data.batch_size) :
                LET items == DataLoader(dataset[1], data.batch_size, k)
                IN  IF collates(items)
                      THEN /\ batch' = Some([split |-> split, items |-> items])
                           /\ UNCHANGED raised
                      ELSE /\ raised' = "RuntimeError"
                           /\ UNCHANGED batch
    /\ UNCHANGED <<archive, disk, downloads, data, generator, data2,
                   generator2, model, returned>>

TrainDataloader == Load("train", data.train_set)

ValDataloader == Load("val", data.val_set)

TestDataloader == Load("test", data.test_set)

Next ==
    \/ PrepareData
    \/ Setup
    \/ TrainDataloader
    \/ ValDataloader
    \/ TestDataloader

Spec == Init /\ [][Next]_vars

----------------------------------------------------------------------------
(* Two runs of the script side by side, on the same dataset directory and  *)
(* with the same train_val_ratio, making the same calls in the same order  *)

PinnedBatch == batch = None

InitRepro ==
    /\ archive \in Contents
    /\ disk \in {NoDir, archive}
    /\ downloads = 0
    /\ \E r \in Ratios :
         /\ data = MedicalDecathlonDataModule(BatchSize, r)
         /\ data2 = MedicalDecathlonDataModule(BatchSize, r)
    /\ \E e \in Entropy : generator = [seed |-> set_determinism(e), pos |-> 0]
    /\ \E e \in Entropy : generator2 = [seed |-> set_determinism(e), pos |-> 0]
    /\ raised = "none"
    /\ PinnedBatch
    /\ PinnedModel

\* torch.randperm is a function of the generator's state: two generators in
\* the same state give the same permutation of the same length
same_draw(g1, n1, p1, g2, n2, p2) == (g1 = g2 /\ n1 = n2) => p1 = p2

\* prepare_data() in the first run, then in the second
PrepareDataBoth ==
    /\ raised = "none"
    /\ \E network_ok \in BOOLEAN :
         LET got  == download_data(disk, archive)
             got2 == download_data(got.disk, archive)
         IN  IF got.fetched /\ ~network_ok
               THEN /\ raised' = "ConnectionError"
                    /\ downloads' = downloads + 1
                    /\ UNCHANGED <<disk, data, data2>>
               ELSE /\ disk' = got2.disk
                    /\ downloads' = downloads + (IF got.fetched THEN 1 ELSE 0)
                                              + (IF got2.fetched THEN 1 ELSE 0)
                    /\ data' = prepare_data(data, got)
                    /\ data2' = prepare_data(data2, got2)
                    /\ UNCHANGED raised
    /\ UNCHANGED <<archive, generator, generator2, batch, model, returned>>

\* setup() in both runs; which exception ends the call depends on the
\* subject lists and the ratio, which the two runs share
SetupBoth ==
    /\ raised = "none"
    /\ generator.pos < MaxDraws
    /\ LET n  == IF data.subjects = None THEN 0 ELSE Len(data.subjects[1])
           n2 == IF data2.subjects = None THEN 0 ELSE Len(data2.subjects[1])
       IN  \E perm \in randperm(n), perm2 \in randperm(n2) :
             /\ same_draw(generator, n, perm, generator2, n2, perm2)
             /\ data' = setup(data, perm).self
             /\ data2' = setup(data2, perm2).self
             /\ raised' = setup(data, perm).raised
             /\ generator' = IF data.subjects = None THEN generator
                             ELSE [generator EXCEPT !.pos = @ + 1]
             /\ generator2' = IF data2.subjects = None THEN generator2
                              ELSE [generator2 EXCEPT !.pos = @ + 1]
    /\ UNCHANGED <<archive, disk, downloads, batch, model, returned>>

NextRepro ==
    \/ PrepareDataBoth
    \/ SetupBoth

SpecRepro == InitRepro /\ [][NextRepro]_vars

----------------------------------------------------------------------------
(* Model: the LightningModule wrapper *)

\* the tensors a collated batch may hold
ImageTensors == {"x1", "x2"}

LabelTensors == {"y1"}

\* a collated batch: per role, the stacked tensors of its subjects
Batches ==
    UNION { { [image |-> x, label |-> y] :
                x \in [1..n -> ImageTensors], y \in [1..n -> LabelTensors] } :
            n \in 1..BatchSize }

\* self.net(x) and self.criterion(y_hat, y): the result is the term naming
\* the computation, so two results are equal when the computations are
net(weights, x) == <<"UNet", weights, x>>

criterion(y_hat, y) == <<"DiceCELoss", y_hat, y>>

\* prepare_batch(batch)
prepare_batch(b) == <<b.image, b.label>>

\* infer_batch(batch)
infer_batch(self, b) ==
    LET x     == prepare_batch(b)[1]
        y     == prepare_batch(b)[2]
        y_hat == net(self.net, x)
    IN  <<y_hat, y>>

\* self.log(name, value, prog_bar=False, batch_size=None)
log(name, value, prog_bar, batch_size) ==
    [name |-> name, value |-> value, prog_bar |-> prog_bar,
     batch_size |-> batch_size]

\* training_step(batch, batch_idx): the loss returned and the call to log
training_step(self, b) ==
    LET y_hat == infer_batch(self, b)[1]
        y     == infer_batch(self, b)[2]
        loss  == criterion(y_hat, y)
    IN  [loss |-> loss, log |-> log("train_loss", loss, TRUE, Len(y))]

\* validation_step(batch, batch_idx)
validation_step_swapped(self, b) ==
    LET y_hat == infer_batch(self, b)[1]
        y     == infer_batch(self, b)[2]
        loss  == criterion(y, y_hat)
    IN  [loss |-> loss, log |-> log("val_loss", loss, FALSE, Len(y))]

validation_step(self, b) ==
    LET y_hat == infer_batch(self, b)[1]
        y     == infer_batch(self, b)[2]
        loss  == criterion(y_hat, y)
    IN  [loss |-> loss, log |-> log("val_loss", loss, FALSE, Len(y))]

PinnedData ==
    /\ archive = None
    /\ disk = NoDir
    /\ downloads = 0
    /\ data = None
    /\ generator = None
    /\ raised = "none"
    /\ batch = None
    /\ Pinned2

\* Model(net, criterion, learning_rate, optimizer_class): the network's
\* state is named by the number of optimizer steps that made it; logged
\* holds, per name, the last call to log
InitModel ==
    /\ model = [net |-> 0,
                logged |-> [name \in {"train_loss", "val_loss"} |-> None]]
    /\ returned = [step \in {"training_step", "validation_step"} |-> None]
    /\ PinnedData

\* what a step returned, with the batch and the network state it ran on
Call(self, b, out) == Some([batch |-> b, net |-> self.net, loss |-> out.loss])

\* the trainer calls training_step on a batch
TrainingStep ==
    /\ \E b \in Batches :
         LET out == training_step(model, b)
         IN  /\ model' = [model EXCEPT !.logged[out.log.name] = Some(out.log)]
             /\ returned' = [returned EXCEPT
                               !["training_step"] = Call(model, b, out)]
    /\ UNCHANGED <<archive, disk, downloads, data, generator, raised, batch,
                   data2, generator2>>

\* the trainer calls validation_step on a batch
ValidationStep ==
    /\ \E b \in Batches :
         LET out == validation_step(model, b)
         IN  /\ model' = [model EXCEPT !.logged[out.log.name] = Some(out.log)]
             /\ returned' = [returned EXCEPT
                               !["validation_step"] = Call(model, b, out)]
    /\ UNCHANGED <<archive, disk, downloads, data, generator, raised, batch,
                   data2, generator2>>

\* the trainer applies the optimizer to the loss training_step returned
OptimizerStep ==
    /\ returned["training_step"] # None
    /\ model.net < MaxSteps
    /\ model' = [model EXCEPT !.net = @ + 1]
    /\ UNCHANGED <<archive, disk, downloads, data, generator, raised, batch,
                   data2, generator2, returned>>

NextModel ==
    \/ TrainingStep
    \/ ValidationStep
    \/ OptimizerStep

SpecModel == InitModel /\ [][NextModel]_vars

----------------------------------------------------------------------------
(* Properties of the data module *)

\* a setup() call has returned and nothing was raised since
SetupDone == raised = "none" /\ data.test_set # None

\* the files of a directory the indexer is to keep
Indexed(d) == {p \in d : glob_nii(p.name) /\ p.name[1] # "."}

\* the file of S with exactly i-1 files of S before it in name order
IsIth(p, i, S) ==
    p \in S /\ Cardinality({q \in S : NameLess(q.name, p.name)}) = i - 1

\* the smallest multiple of 8 that is no less than n
IsPad8(m, n) == m % 8 = 0 /\ m >= n /\ m - n < 8

\* the names of the transforms of a pipeline, in running order
Names(t) == [i \in 1..Len(order(t)) |-> order(t)[i].name]

Preprocessing ==
    <<"RescaleIntensity", "CropOrPad", "EnsureShapeMultiple", "OneHot">>

Augmentation ==
    <<"RandomAffine", "RandomGamma", "RandomNoise", "RandomMotion",
      "RandomBiasField">>

\* the indices of the subsets tr and va, both taken from subjects, hold
\* every index 0..N-1 exactly once between them
IsPartition(tr, va, subjects) ==
    LET N == Len(subjects)
    IN  /\ tr.dataset = subjects
        /\ va.dataset = subjects
        /\ \A k \in 0..(N - 1) :
             Cardinality({i \in DOMAIN tr.indices : tr.indices[i] = k})
             + Cardinality({j \in DOMAIN va.indices : va.indices[j] = k})
             = 1
        /\ \A i \in DOMAIN tr.indices : tr.indices[i] \in 0..(N - 1)
        /\ \A j \in DOMAIN va.indices : va.indices[j] \in 0..(N - 1)

\* C1: whatever permutation the generator gives, the training subset and the
\* validation subset setup() takes from self.subjects hold every index
\* 0..N-1 exactly once between them; and so do the sets of the data module
\* after a setup() call has returned: no subject is dropped, duplicated, or
\* placed in both subsets.
C1_SplitIsPartition ==
    /\ data.subjects # None =>
         \A perm \in randperm(Len(data.subjects[1])) :
             IsPartition(split_subjects(data, perm)[1],
                         split_subjects(data, perm)[2], data.subjects[1])
    /\ SetupDone =>
         IsPartition(data.train_set[1].subjects, data.val_set[1].subjects,
                     data.subjects[1])

C1_Witness ==
    /\ SetupDone
    /\ Len(data.subjects[1]) = 3
    /\ len(data.train_set[1]) = 2
    /\ len(data.val_set[1]) = 1

\* t is the integer nearest to N*r, the even one when N*r is half-way, and
\* v is the rest of N; N = 3 and r = 0.8 give 2 and 1
HasRoundedSizes(t, v, N, r) ==
    LET d    == t * r.den - N * r.num
        dist == IF d >= 0 THEN d ELSE -d
    IN  /\ v = N - t
        /\ 2 * dist <= r.den
        /\ 2 * dist = r.den => t % 2 = 0
        /\ (N = 3 /\ r = [num |-> 4, den |-> 5]) => (t = 2 /\ v = 1)

\* C2: the training subset setup() takes holds round(N*r) subjects and the
\* validation subset N - round(N*r), whatever permutation the generator
\* gives; and so do the sets of the data module after a setup() call has
\* returned.
C2_SplitSizes ==
    /\ data.subjects # None =>
         \A perm \in randperm(Len(data.subjects[1])) :
             HasRoundedSizes(Len(split_subjects(data, perm)[1].indices),
                             Len(split_subjects(data, perm)[2].indices),
                             Len(data.subjects[1]), data.train_val_ratio)
    /\ SetupDone =>
         HasRoundedSizes(len(data.train_set[1]), len(data.val_set[1]),
                         Len(data.subjects[1]), data.train_val_ratio)

C2_Witness ==
    /\ SetupDone
    /\ Len(data.subjects[1]) = 3
    /\ data.train_val_ratio = [num |-> 4, den |-> 5]
    /\ len(data.train_set[1]) = 2

\* a completed split whose N*r is half-way between two integers
C2_TieSeen ==
    /\ SetupDone
    /\ Len(data.subjects[1]) = 4
    /\ data.train_val_ratio = [num |-> 5, den |-> 8]
    /\ len(data.train_set[1]) = 2

\* C3: once prepare_data() has returned, training subject i pairs the i-th
\* non-hidden '*.nii*' file of imagesTr in name order with the i-th such
\* file of labelsTr, and there are min(#images, #labels) training subjects:
\* the surplus files of the longer list are left out.
C3_PositionalPairing ==
    data.subjects # None =>
        LET images == Indexed(disk.imagesTr)
            labels == Indexed(disk.labelsTr)
            s      == data.subjects[1]
        IN  /\ Len(s) = Min(Cardinality(images), Cardinality(labels))
            /\ \A i \in 1..Len(s) :
                 /\ IsIth(s[i].image, i, images)
                 /\ IsIth(s[i].label, i, labels)

\* a hidden file is present, the lists differ in length, and the pairing
\* joins an image with another image's label
C3_Witness ==
    /\ data.subjects # None
    /\ raised = "none"
    /\ \E p \in disk.imagesTr : p.name[1] = "."
    /\ Cardinality(Indexed(disk.imagesTr)) > Cardinality(Indexed(disk.labelsTr))
    /\ \E i \in 1..Len(data.subjects[1]) :
         data.subjects[1][i].image.name # data.subjects[1][i].label.name

\* the numbers of indexed image and label files differ
CountMismatch ==
    /\ is_dir(disk)
    /\ Cardinality(Indexed(disk.imagesTr)) # Cardinality(Indexed(disk.labelsTr))

\* C4: when the number of image files differs from the number of label
\* files, prepare_data() and setup() do not both return normally with a
\* populated subject list.
C4_MismatchRaises ==
    CountMismatch => ~(SetupDone /\ Len(data.subjects[1]) > 0)

\* C5: in the sets setup() builds, the training pipeline runs the four
\* preprocessing steps in their fixed order and then the five augmentation
\* steps in theirs, and the validation and test pipelines run the
\* preprocessing steps only.
C5_PipelineOrder ==
    SetupDone =>
        /\ Names(data.train_set[1].transform) = Preprocessing \o Augmentation
        /\ Names(data.val_set[1].transform) = Preprocessing
        /\ Names(data.test_set[1].transform) = Preprocessing
        /\ order(data.val_set[1].transform)[3].arg = 8

C5_Witness ==
    /\ SetupDone
    /\ Len(order(data.train_set[1].transform)) = 9
    /\ Len(order(data.val_set[1].transform)) = 4
    /\ batch # None
    /\ batch[1].split = "train"

\* the spatial shape of the images of subject s is, on every axis, the
\* maximum of that axis over the pool, padded up to a multiple of 8
HasTargetShape(s, pool) ==
    \A f \in DOMAIN s : \A a \in Axes :
        /\ \A i \in 1..Len(pool) : s[f].shape[a] >= pool[i].image.shape[a]
        /\ \E i \in 1..Len(pool) :
             IsPad8(s[f].shape[a], pool[i].image.shape[a])

\* C6: after a setup() call has returned, every item of the training, the
\* validation and the test set has, on every axis, the maximum of that axis
\* over self.subjects + self.test_subjects padded up to the next multiple of
\* 8; and every image of a produced batch has that one shape.
C6_CommonShape ==
    SetupDone =>
        LET pool == data.subjects[1] \o data.test_subjects[1]
            sets == {data.train_set[1], data.val_set[1], data.test_set[1]}
        IN  /\ \A ds \in sets : \A k \in 0..(len(ds) - 1) :
                 HasTargetShape(getitem(ds, k), pool)
            /\ batch # None =>
                 \A i \in 1..Len(batch[1].items) :
                     HasTargetShape(batch[1].items[i], pool)

\* a test subject decides the target shape: without the test subjects the
\* training and validation images would come out smaller
C6_Witness ==
    /\ SetupDone
    /\ batch # None
    /\ batch[1].split = "train"
    /\ Len(batch[1].items) = 2
    /\ \E a \in Axes :
         \A i \in 1..Len(data.subjects[1]) :
             batch[1].items[1].image.shape[a]
               >= data.subjects[1][i].image.shape[a] + 8

\* C7 as stated: once a setup() call has returned, the membership of the
\* training and validation subsets stays the same for the rest of the run.
C7_MembershipFixed ==
    [][(SetupDone /\ SetupDone') =>
          /\ data'.train_set[1].subjects.indices
               = data.train_set[1].subjects.indices
          /\ data'.val_set[1].subjects.indices
               = data.val_set[1].subjects.indices]_vars

\* C7 amended: the training and validation sets change only in a setup()
\* call, which draws the membership anew from the generator; prepare_data()
\* and the data loaders leave them alone, and from one returned setup() call
\* to the next the two sizes stay the same.
C7_MembershipChangesOnlyInSetup ==
    [][/\ (data'.train_set # data.train_set \/ data'.val_set # data.val_set)
            => generator'.pos = generator.pos + 1
       /\ (SetupDone /\ SetupDone') =>
            /\ len(data'.train_set[1]) = len(data.train_set[1])
            /\ len(data'.val_set[1]) = len(data.val_set[1])]_vars

\* setup() has returned twice and prepare_data() and a loader ran
C7_Witness ==
    /\ SetupDone
    /\ generator.pos = 2
    /\ batch # None
    /\ Len(data.subjects[1]) >= 3

\* the subject lists are the indexed files of the directory, in name order
IndexedFrom(self, dsk) ==
    LET tests == Indexed(dsk.imagesTs)
    IN  /\ Len(self.test_subjects[1]) = Cardinality(tests)
        /\ \A i \in 1..Len(self.test_subjects[1]) :
             IsIth(self.test_subjects[1][i].image, i, tests)
        /\ \A i \in 1..Len(self.subjects[1]) :
             /\ IsIth(self.subjects[1][i].image, i, Indexed(dsk.imagesTr))
             /\ IsIth(self.subjects[1][i].label, i, Indexed(dsk.labelsTr))

\* C9: a download is made only in a step that finds no dataset directory,
\* and it leaves the archive's content there; a directory that is present is
\* left as it is and nothing is downloaded; either way the subject lists
\* a step assigns are those indexed from the directory it leaves.
C9_DownloadOnlyWhenAbsent ==
    [][/\ downloads' # downloads =>
            (~is_dir(disk) /\ downloads' = downloads + 1)
       /\ is_dir(disk) => disk' = disk
       /\ (~is_dir(disk) /\ is_dir(disk')) =>
            (disk' = tar_xf(archive) /\ downloads' = downloads + 1)
       /\ data'.subjects # data.subjects =>
            (is_dir(disk') /\ IndexedFrom(data', disk'))]_vars

\* prepare_data() found the directory and indexed it without a download
C9_Witness ==
    /\ downloads = 0
    /\ is_dir(disk)
    /\ raised = "none"
    /\ data.subjects # None
    /\ Len(data.subjects[1]) >= 2
    /\ Len(data.test_subjects[1]) = 1

\* prepare_data() found no directory, fetched the archive and indexed it
C9_DownloadSeen ==
    /\ downloads = 1
    /\ is_dir(disk)
    /\ raised = "none"
    /\ data.subjects # None
    /\ Len(data.subjects[1]) >= 2
    /\ Len(data.test_subjects[1]) = 1

----------------------------------------------------------------------------
(* Properties of two runs side by side *)

\* the indices of a set of the data module, None when it was never assigned
Membership(set) == IF set = None THEN None ELSE Some(set[1].subjects.indices)

\* C8: two runs of the script that index the same subject list with the same
\* train_val_ratio and have made the same prepare_data/setup calls hold the
\* same training and validation membership.
C8_Reproducible ==
    (/\ data.subjects = data2.subjects
     /\ data.train_val_ratio = data2.train_val_ratio) =>
        /\ Membership(data.train_set) = Membership(data2.train_set)
        /\ Membership(data.val_set) = Membership(data2.val_set)

\* both runs have split three or more subjects twice
C8_Witness ==
    /\ raised = "none"
    /\ data.test_set # None
    /\ data2.test_set # None
    /\ Len(data.subjects[1]) >= 3
    /\ generator.pos = 2
    /\ generator2.pos = 2

----------------------------------------------------------------------------
(* Properties of the Model wrapper *)

\* training_step and validation_step last ran on the same batch with the
\* network in the same state
SameCall ==
    /\ returned["training_step"] # None
    /\ returned["validation_step"] # None
    /\ returned["training_step"][1].batch = returned["validation_step"][1].batch
    /\ returned["training_step"][1].net = returned["validation_step"][1].net

\* the loss is the criterion applied to the network's output for the
\* batch's images and to the batch's labels
IsLossOf(loss, call) ==
    loss = <<"DiceCELoss", <<"UNet", call.net, call.batch.image>>,
             call.batch.label>>

\* what the two steps compute, return and log, but for the flags of log
StepsAgree ==
    LET t  == returned["training_step"][1]
        v  == returned["validation_step"][1]
        lt == model.logged["train_loss"][1]
        lv == model.logged["val_loss"][1]
    IN  /\ IsLossOf(t.loss, t)
        /\ IsLossOf(v.loss, v)
        /\ t.loss = v.loss
        /\ lt.name = "train_loss" /\ lv.name = "val_loss"
        /\ lt.value = t.loss /\ lv.value = v.loss
        /\ lt.batch_size = Len(t.batch.label)
        /\ lv.batch_size = Len(v.batch.label)

\* C10 as stated: on the same batch and network state the two steps compute
\* and return the same loss, and their calls to log differ in the name only.
C10_StepsDifferInNameOnly ==
    SameCall =>
        /\ StepsAgree
        /\ [model.logged["train_loss"][1] EXCEPT !.name = "loss"]
             = [model.logged["val_loss"][1] EXCEPT !.name = "loss"]

\* C10 amended: on the same batch and network state the two steps compute
\* and return the same loss and log it with batch_size the number of labels;
\* their calls to log differ in the name and in prog_bar, which only
\* training_step sets.
C10_StepsDifferInNameAndProgBar ==
    SameCall =>
        /\ StepsAgree
        /\ model.logged["train_loss"][1].prog_bar
        /\ ~model.logged["val_loss"][1].prog_bar
        /\ [model.logged["train_loss"][1] EXCEPT !.name = "loss",
                                                 !.prog_bar = FALSE]
             = [model.logged["val_loss"][1] EXCEPT !.name = "loss"]

\* both steps ran on the same two-subject batch after an optimizer step
C10_Witness ==
    /\ SameCall
    /\ returned["training_step"][1].net = 1
    /\ Len(returned["training_step"][1].batch.label) = 2

====
